---- MODULE Spec2Model ----
(***************************************************************************)
(* Model of the DRIFT multi-terrain neural-link benchmark                  *)
(* (src/tests/test02/main.go, runBenchmark and the functions it calls) and *)
(* of the link descriptor of src/drift.go.                                 *)
(*                                                                         *)
(* Numbers.  The program computes in float32.  Here every float32 is a     *)
(* fixed-point integer counted in units of 1/Unit (1e-4): 0.02 is 200,     *)
(* 1.0 is 10000.  A product or a quotient is rounded to the nearest unit,  *)
(* as a float operation rounds to the nearest representable value.         *)
(* Go arrays and slices are indexed from 0, the sequences here from 1:     *)
(* input[i] of the program is navInput[i+1] of the model.                  *)
(*                                                                         *)
(* Time.  time.Now() is an integer count of milliseconds since the start   *)
(* of the run.  The clock reads at the top of an iteration (loop           *)
(* condition, terrain check, lastTerrainChange) see one instant, the body  *)
(* of the iteration takes run.tickDur, and the reads at its end (window    *)
(* check, lastWindow) see the instant the next loop condition sees.        *)
(*                                                                         *)
(* The networks are external (loom/nn): a forward pass of the navigator    *)
(* yields any output vector, the classifier's stage any vector of the      *)
(* stage's width, rand.Float32() any value of Rands.                       *)
(*                                                                         *)
(* Config.  A JSON document is the tree of its members; a string is what   *)
(* encoding/json writes for it, a raw message keeps its value and changes  *)
(* its layout.  SpecConfig builds a config, looks models up in it, saves   *)
(* it, loads it and looks links up on the loaded one.                      *)
(***************************************************************************)
EXTENDS Integers, Sequences, FiniteSets, TLC

\* ------------------------------------------------------------ numbers

\* Fixed-point resolution: one unit is 1e-4.
Unit == 10000

Abs(v) == IF v < 0 THEN -v ELSE v

\* n / d rounded to the nearest integer, halves away from zero (d > 0).
RoundDiv(n, d) == IF n >= 0 THEN (2 * n + d) \div (2 * d) ELSE -((2 * (-n) + d) \div (2 * d))

\* a * b and a / b of two fixed-point numbers, rounded to the unit.
Mul(a, b) == RoundDiv(a * b, Unit)

Div(a, b) == RoundDiv(a * Unit, b)

RECURSIVE SqrtSearch(_, _, _)
SqrtSearch(n, lo, hi) ==
    IF lo >= hi THEN lo
    ELSE LET mid == (lo + hi + 1) \div 2
         IN  IF mid * mid <= n THEN SqrtSearch(n, mid, hi) ELSE SqrtSearch(n, lo, mid - 1)

\* math.Sqrt of a sum of two squared fixed-point numbers, in units (floor).
Sqrt(n) == SqrtSearch(n, 0, 2 * Unit)

Min(a, b) == IF a < b THEN a ELSE b

\* ---------------------------------------------------------- constants

TerrainRoad == 0
TerrainSand == 1
TerrainIce == 2
TerrainGrass == 3

ActionUp == 0
ActionDown == 1
ActionLeft == 2
ActionRight == 3
NumActions == 4

\* LastAction of an Environment that has not acted yet.
NoAction == -1

terrainNames == <<"Road", "Sand", "Ice", "Grass">>

terrainSequence ==
    <<TerrainRoad, TerrainSand, TerrainRoad, TerrainGrass, TerrainRoad, TerrainIce, TerrainRoad>>

\* speed := float32(0.02)
Speed == 200
\* sand: speed *= 0.3 on a repeated action, speed *= 1.5 on a changed one
SandSlow == 3000
SandFast == 15000
\* sand: the move is void once StuckCount > 2
StuckLimit == 2
\* ice: friction := float32(0.1)
Friction == 1000
\* grass: speed *= 0.8
GrassFactor == 8000
\* newDist < 0.1: the target is reached
ReachDist == 1000
\* gotCloser := newDist < prevDist-0.001
CloserEps == 10
\* buildNavigatorInput: the direction is set when dist > 0.001
DirEps == 10
\* buildNavigatorInput: the link slots start at input[4]
FeatureCount == 4
\* reset: agent = rand*0.3, target = 0.7 + rand*0.3
ResetSpan == 3000
ResetBase == 7000
\* windowDuration := 500 * time.Millisecond
WindowDuration == 500
\* classifier.InitStepState(8)
SensorCount == 8

\* ------------------------------------------------------ pure functions

\* (mutant) clamp without its lower bound.
clampNoMin(v, min, max) == IF v > max THEN max ELSE v

clamp(v, min, max) == IF v < min THEN min ELSE IF v > max THEN max ELSE v

\* (mutant) the scan of an argmax that lets an equal entry take over.
RECURSIVE argmaxLastFrom(_, _, _, _)
argmaxLastFrom(s, i, maxI, maxV) ==
    IF i > Len(s) THEN maxI
    ELSE IF s[i] >= maxV THEN argmaxLastFrom(s, i + 1, i - 1, s[i])
    ELSE argmaxLastFrom(s, i + 1, maxI, maxV)

\* (mutant) an argmax that returns the last largest entry.
argmaxLast(s) == IF Len(s) = 0 THEN 0 ELSE argmaxLastFrom(s, 1, 0, s[1])

\* "for i, v := range s { if v > maxV { maxV, maxI = v, i } }", from entry i
\* (counted from 1) on; maxI is an index counted from 0.
RECURSIVE argmaxFrom(_, _, _, _)
argmaxFrom(s, i, maxI, maxV) ==
    IF i > Len(s) THEN maxI
    ELSE IF s[i] > maxV THEN argmaxFrom(s, i + 1, i - 1, s[i])
    ELSE argmaxFrom(s, i + 1, maxI, maxV)

\* The index (from 0) the scan ends with; 0 for an empty slice.
argmax(s) == IF Len(s) = 0 THEN 0 ELSE argmaxFrom(s, 1, 0, s[1])

\* moves := [][2]float32{{0, speed}, {0, -speed}, {-speed, 0}, {speed, 0}}
moves == <<<<0, Speed>>, <<0, -Speed>>, <<-Speed, 0>>, <<Speed, 0>>>>

\* moveX, moveY of an action; zero for an action outside 0..3.
MoveOf(action) == IF action >= 0 /\ action < 4 THEN moves[action + 1] ELSE <<0, 0>>

distanceToTarget(env) ==
    LET dx == env.TargetPos[1] - env.AgentPos[1]
        dy == env.TargetPos[2] - env.AgentPos[2]
    IN  Sqrt(dx * dx + dy * dy)

\* ------------------------------------------- executeActionWithPhysics

\* (mutant) a road step that forgets the stuck count.
RoadStepForgetful(env, action) ==
    LET m == MoveOf(action)
    IN  [env EXCEPT !.AgentPos = <<clamp(env.AgentPos[1] + m[1], 0, Unit),
                                   clamp(env.AgentPos[2] + m[2], 0, Unit)>>,
                    !.StuckCount = 0]

\* case TerrainRoad: the full step, clamped.
RoadStep(env, action) ==
    LET m == MoveOf(action)
    IN  [env EXCEPT !.AgentPos = <<clamp(env.AgentPos[1] + m[1], 0, Unit),
                                   clamp(env.AgentPos[2] + m[2], 0, Unit)>>]

\* (mutant) sand that keeps counting from the old StuckCount on a changed action.
SandStepNoReset(env, action) ==
    LET m == MoveOf(action)
        same == action = env.LastAction
        stuck == IF same THEN env.StuckCount + 1 ELSE env.StuckCount
        speed == IF same
                 THEN (IF stuck > StuckLimit THEN 0 ELSE Mul(Speed, SandSlow))
                 ELSE Mul(Speed, SandFast)
        factor == Div(speed, Speed)
    IN  [env EXCEPT !.StuckCount = stuck,
                    !.AgentPos = <<clamp(env.AgentPos[1] + Mul(m[1], factor), 0, Unit),
                                   clamp(env.AgentPos[2] + Mul(m[2], factor), 0, Unit)>>]

\* (mutant) sand whose move is void only once StuckCount > 3.
SandStepLate(env, action) ==
    LET m == MoveOf(action)
        same == action = env.LastAction
        stuck == IF same THEN env.StuckCount + 1 ELSE 0
        speed == IF same
                 THEN (IF stuck > StuckLimit + 1 THEN 0 ELSE Mul(Speed, SandSlow))
                 ELSE Mul(Speed, SandFast)
        factor == Div(speed, Speed)
    IN  [env EXCEPT !.StuckCount = stuck,
                    !.AgentPos = <<clamp(env.AgentPos[1] + Mul(m[1], factor), 0, Unit),
                                   clamp(env.AgentPos[2] + Mul(m[2], factor), 0, Unit)>>]

\* case TerrainSand: a repeated action counts up StuckCount and is damped
\* (void once StuckCount > 2), a changed action resets it and is amplified.
SandStep(env, action) ==
    LET m == MoveOf(action)
        same == action = env.LastAction
        stuck == IF same THEN env.StuckCount + 1 ELSE 0
        speed == IF same
                 THEN (IF stuck > StuckLimit THEN 0 ELSE Mul(Speed, SandSlow))
                 ELSE Mul(Speed, SandFast)
        factor == Div(speed, Speed)
    IN  [env EXCEPT !.StuckCount = stuck,
                    !.AgentPos = <<clamp(env.AgentPos[1] + Mul(m[1], factor), 0, Unit),
                                   clamp(env.AgentPos[2] + Mul(m[2], factor), 0, Unit)>>]

\* The velocity one ice tick computes from v and the requested move m:
\* v*(1-friction) + m*friction.
IceVel(v, m) == Mul(v, Unit - Friction) + Mul(m, Friction)

\* (mutant) ice that moves by the requested step and keeps no momentum.
IceStepNoMomentum(env, action) ==
    LET m == MoveOf(action)
    IN  [env EXCEPT !.IceVelX = m[1],
                    !.IceVelY = m[2],
                    !.AgentPos = <<clamp(env.AgentPos[1] + m[1], 0, Unit),
                                   clamp(env.AgentPos[2] + m[2], 0, Unit)>>]

\* (mutant) ice that stops the agent's velocity along an axis on which the
\* position was clamped.
IceStepStopAtWall(env, action) ==
    LET m == MoveOf(action)
        vx == IceVel(env.IceVelX, m[1])
        vy == IceVel(env.IceVelY, m[2])
        x == clamp(env.AgentPos[1] + vx, 0, Unit)
        y == clamp(env.AgentPos[2] + vy, 0, Unit)
    IN  [env EXCEPT !.IceVelX = IF x = env.AgentPos[1] + vx THEN vx ELSE 0,
                    !.IceVelY = IF y = env.AgentPos[2] + vy THEN vy ELSE 0,
                    !.AgentPos = <<x, y>>]

\* case TerrainIce: the velocity is filtered toward the requested move and the
\* position advances by the velocity.
IceStep(env, action) ==
    LET m == MoveOf(action)
        vx == IceVel(env.IceVelX, m[1])
        vy == IceVel(env.IceVelY, m[2])
    IN  [env EXCEPT !.IceVelX = vx,
                    !.IceVelY = vy,
                    !.AgentPos = <<clamp(env.AgentPos[1] + vx, 0, Unit),
                                   clamp(env.AgentPos[2] + vy, 0, Unit)>>]

\* case TerrainGrass: speed *= 0.8.
GrassStep(env, action) ==
    LET m == MoveOf(action)
        factor == Div(Mul(Speed, GrassFactor), Speed)
    IN  [env EXCEPT !.AgentPos = <<clamp(env.AgentPos[1] + Mul(m[1], factor), 0, Unit),
                                   clamp(env.AgentPos[2] + Mul(m[2], factor), 0, Unit)>>]

executeActionWithPhysics(env, action) ==
    LET after == CASE env.Terrain = TerrainRoad -> RoadStep(env, action)
                   [] env.Terrain = TerrainSand -> SandStep(env, action)
                   [] env.Terrain = TerrainIce -> IceStep(env, action)
                   [] env.Terrain = TerrainGrass -> GrassStep(env, action)
                   [] OTHER -> env
    IN  [after EXCEPT !.LastAction = action]

\* The zigzag label of a failed tick; env is the environment after the move.
suggestAlternativeAction(env, currentAction) ==
    IF env.LastAction = ActionUp \/ env.LastAction = ActionDown
    THEN (IF env.TargetPos[1] > env.AgentPos[1] THEN ActionRight ELSE ActionLeft)
    ELSE (IF env.TargetPos[2] > env.AgentPos[2] THEN ActionUp ELSE ActionDown)

\* ------------------------------------------------- relay and input

\* A Go slice: nil, or its elements.
NilSlice == [isNil |-> TRUE, data |-> <<>>]

Slice(data) == [isNil |-> FALSE, data |-> data]

\* (mutant) the relay without zero padding: the stage's values, cut to linkSize.
getHiddenActivationsNoPad(hidden, linkSize) ==
    [i \in 1..Min(linkSize, Len(hidden)) |-> hidden[i]]

\* result := make([]float32, linkSize), filled from the stage's output.
getHiddenActivations(hidden, linkSize) ==
    [i \in 1..linkSize |-> IF i <= Len(hidden) THEN hidden[i] ELSE 0]

\* input[0..1]: the unit direction to the target, input[2..3]: the agent
\* position, input[4+i] = linkData[i].
buildNavigatorInput(env, linkData, linkSize) ==
    LET dx == env.TargetPos[1] - env.AgentPos[1]
        dy == env.TargetPos[2] - env.AgentPos[2]
        dist == Sqrt(dx * dx + dy * dy)
    IN  [i \in 1..(FeatureCount + linkSize) |->
            CASE i = 1 -> IF dist > DirEps THEN Div(dx, dist) ELSE 0
              [] i = 2 -> IF dist > DirEps THEN Div(dy, dist) ELSE 0
              [] i = 3 -> env.AgentPos[1]
              [] i = 4 -> env.AgentPos[2]
              [] OTHER -> IF /\ ~linkData.isNil
                             /\ i - FeatureCount <= linkSize
                             /\ i - FeatureCount <= Len(linkData.data)
                          THEN linkData.data[i - FeatureCount]
                          ELSE 0]

\* ------------------------------------------------------- drift.Config

\* Strings.  A Go string is any sequence of bytes; encoding/json writes a string
\* coerced to valid UTF-8, each invalid byte replaced by U+FFFD.  BadUtf8 stands
\* for the string "link\xff", Replaced for what is written for it.
BadUtf8 == "link\\xff"
Replaced == "link\\ufffd"

ToValidUTF8(s) == IF s = BadUtf8 THEN Replaced ELSE s

\* A value json.Marshal cannot encode (a channel, a NaN): AddModel returns its error.
Unmarshalable == "unmarshalable"

\* The map f with key k set to v.
Put(f, k, v) == [x \in (DOMAIN f) \cup {k} |-> IF x = k THEN v ELSE f[x]]

\* NewConfig: an empty map of models and an empty, non-nil slice of links.
NewConfig(name) ==
    [Name |-> name, Models |-> [n \in {} |-> 0], ModelsNil |-> FALSE, Links |-> Slice(<<>>)]

\* AddModel: the model is marshalled (compact JSON) and stored under name; on a
\* marshalling error the config is left as it was. "c.Models[name] = data" on a
\* nil map is a run-time panic: assignment to entry in nil map.
AddModel(c, name, model) ==
    IF model = Unmarshalable
    THEN [c |-> c, err |-> TRUE, panic |-> FALSE]
    ELSE IF c.ModelsNil
    THEN [c |-> c, err |-> FALSE, panic |-> TRUE]
    ELSE [c |-> [c EXCEPT !.Models = Put(@, name, [value |-> model, layout |-> "compact"])],
          err |-> FALSE, panic |-> FALSE]

\* (mutant) a lookup that hands out a zero value for a name never added.
GetModelLenient(c, name, target) ==
    IF name \notin DOMAIN c.Models
    THEN [target |-> "classifierDef", err |-> "nil"]
    ELSE [target |-> c.Models[name].value, err |-> "nil"]

\* GetModel: os.ErrNotExist for a name that is no key of c.Models, the target
\* untouched; else the stored bytes are unmarshalled into the target, which
\* then holds the value they encode whatever their layout. The target is one
\* that can hold the value (a pointer to the type that was added).
GetModel(c, name, target) ==
    IF name \notin DOMAIN c.Models
    THEN [target |-> target, err |-> "ErrNotExist"]
    ELSE [target |-> c.Models[name].value, err |-> "nil"]

\* AddLink: c.Links = append(c.Links, link).
AddLink(c, link) == [c EXCEPT !.Links = Slice(Append(@.data, link))]

\* GetLinks returns c.Links.
GetLinks(c) == c.Links

\* append(result, link) on a result that starts as a nil slice.
AppendTo(result, link) == Slice(Append(result.data, link))

\* (mutant) a lookup by source that returns disabled links too.
RECURSIVE GetLinksBySourceAll(_, _)
GetLinksBySourceAll(c, modelName) ==
    IF Len(c.Links.data) = 0 THEN NilSlice
    ELSE LET n == Len(c.Links.data)
             link == c.Links.data[n]
             rest == GetLinksBySourceAll([c EXCEPT !.Links = Slice(SubSeq(@.data, 1, n - 1))], modelName)
         IN  IF link.SourceModel = modelName THEN AppendTo(rest, link) ELSE rest

\* GetLinksBySource: the links, in order, with link.SourceModel == modelName &&
\* link.Enabled; nil when there is none.
RECURSIVE GetLinksBySource(_, _)
GetLinksBySource(c, modelName) ==
    IF Len(c.Links.data) = 0 THEN NilSlice
    ELSE LET n == Len(c.Links.data)
             link == c.Links.data[n]
             rest == GetLinksBySource([c EXCEPT !.Links = Slice(SubSeq(@.data, 1, n - 1))], modelName)
         IN  IF link.SourceModel = modelName /\ link.Enabled THEN AppendTo(rest, link) ELSE rest

\* GetLinksByTarget: the links, in order, with link.TargetModel == modelName &&
\* link.Enabled; nil when there is none.
RECURSIVE GetLinksByTarget(_, _)
GetLinksByTarget(c, modelName) ==
    IF Len(c.Links.data) = 0 THEN NilSlice
    ELSE LET n == Len(c.Links.data)
             link == c.Links.data[n]
             rest == GetLinksByTarget([c EXCEPT !.Links = Slice(SubSeq(@.data, 1, n - 1))], modelName)
         IN  IF link.TargetModel = modelName /\ link.Enabled THEN AppendTo(rest, link) ELSE rest

\* A JSON string: the text written between the quotes.
Quote(s) == [text |-> ToValidUTF8(s)]

\* A link as the JSON object its field tags describe.
EncodeLink(l) ==
    [name |-> Quote(l.Name), source_model |-> Quote(l.SourceModel),
     source_layer |-> l.SourceLayer, target_model |-> Quote(l.TargetModel),
     target_offset |-> l.TargetOffset, link_size |-> l.LinkSize,
     enabled |-> l.Enabled, description |-> Quote(l.Description)]

\* A link read back from its JSON object.
DecodeLink(o) ==
    [Name |-> o.name.text, SourceModel |-> o.source_model.text,
     SourceLayer |-> o.source_layer, TargetModel |-> o.target_model.text,
     TargetOffset |-> o.target_offset, LinkSize |-> o.link_size,
     Enabled |-> o.enabled, Description |-> o.description.text]

\* The "models" object: one member per key, the key written as a JSON string,
\* the raw message re-indented (same value, other bytes).
EncodeModels(models) ==
    [k \in {ToValidUTF8(n) : n \in DOMAIN models} |->
        LET n == CHOOSE x \in DOMAIN models : ToValidUTF8(x) = k
        IN  [models[n] EXCEPT !.layout = "indented"]]

\* (mutant) a document that never has a "links" member.
MarshalIndentNoLinks(c) ==
    [name |-> Quote(c.Name),
     modelsMember |-> IF c.ModelsNil THEN "null" ELSE "object",
     models |-> EncodeModels(c.Models),
     links |-> [present |-> FALSE, items |-> <<>>]]

\* json.MarshalIndent(c, "", "  "): the document of ToJSON and SaveToFile.
\* "links" carries omitempty: a config without links has no such member.
MarshalIndent(c) ==
    [name |-> Quote(c.Name),
     modelsMember |-> IF c.ModelsNil THEN "null" ELSE "object",
     models |-> EncodeModels(c.Models),
     links |-> IF Len(c.Links.data) = 0
               THEN [present |-> FALSE, items |-> <<>>]
               ELSE [present |-> TRUE,
                     items |-> [i \in 1..Len(c.Links.data) |-> EncodeLink(c.Links.data[i])]]]

\* json.Unmarshal into a zero Config: the document of FromJSON and LoadFromFile
\* read back; Links stays nil when the document has no "links" member, and
\* Models stays nil when it has no "models" member or the member is null.
Unmarshal(doc) ==
    [Name |-> doc.name.text,
     Models |-> IF doc.modelsMember = "object" THEN doc.models ELSE [n \in {} |-> 0],
     ModelsNil |-> doc.modelsMember # "object",
     Links |-> IF doc.links.present
               THEN Slice([i \in 1..Len(doc.links.items) |-> DecodeLink(doc.links.items[i])])
               ELSE NilSlice]

\* What main holds of a config before anything is saved, loaded or looked up.
NothingSaved == [kind |-> "none", doc |-> MarshalIndent(NewConfig(""))]
NothingLoaded == [ok |-> FALSE, c |-> NewConfig("")]
NothingFound == [asked |-> FALSE, model |-> "", bySource |-> NilSlice, byTarget |-> NilSlice]
\* What a caller's target holds before it is handed to GetModel.
TargetBefore == "as declared"
NothingGot == [asked |-> FALSE, name |-> "", target |-> TargetBefore, err |-> "nil"]

\* The config-side state after NewConfig(name).
ConfOf(name) ==
    [c |-> NewConfig(name), saved |-> NothingSaved, loaded |-> NothingLoaded,
     found |-> NothingFound, got |-> NothingGot, err |-> FALSE]

\* ------------------------------------------------------- runBenchmark

VARIABLES
    run,       \* the arguments of runBenchmark and what the run's surroundings fix
    env,       \* the Environment
    loop,      \* the loop's clock readings, terrain index and window accumulators
    result,    \* the ExperimentResult
    tick,      \* the locals of the latest iteration
    nets,      \* calls made on the external networks
    pc,        \* "loop" until runBenchmark has returned, then "done"; while a
               \* config is handled: "build", then "saved", then "loaded"
    conf,      \* the config: c, the document saved, the config loaded, a lookup
    explored,  \* iterations explored since the initial state
    trail      \* history: the latest explored iterations, oldest first

vars == <<run, env, loop, result, tick, nets, pc, conf, explored, trail>>

\* The state as one value, for the operators below.
Cur == [run |-> run, env |-> env, loop |-> loop, result |-> result, tick |-> tick, nets |-> nets]

\* terrainDuration := duration / time.Duration(len(terrainSequence))
terrainDuration(duration) == duration \div Len(terrainSequence)

\* The state runBenchmark builds before its loop. p: useLink, useRL, linkConfig,
\* duration, and what the surroundings fix: tickDur (the time one iteration
\* takes) and layerLen (the width of the classifier stage the link reads).
Setup(p) ==
    LET e == [AgentPos |-> <<2000, 2000>>, TargetPos |-> <<8000, 8000>>,
              Terrain |-> TerrainRoad, LastAction |-> NoAction, StuckCount |-> 0,
              IceVelX |-> 0, IceVelY |-> 0]
    IN  [run |-> p,
         env |-> e,
         loop |-> [now |-> 0, lastWindow |-> 0, windowNum |-> 0, currentTerrainIdx |-> 0,
                   lastTerrainChange |-> 0, windowTargets |-> 0, windowSteps |-> 0,
                   windowEffective |-> 0],
         result |-> [Windows |-> <<>>, TotalTargets |-> 0, TotalSteps |-> 0,
                     FinalAccuracy |-> 0,
                     TerrainResults |-> [n \in {terrainNames[i] : i \in 1..4} |-> 0]],
         tick |-> [start |-> e, changed |-> FALSE, hidden |-> <<>>, linkData |-> NilSlice, navInput |-> <<>>,
                   action |-> NoAction, prevDist |-> 0, newDist |-> 0, gotCloser |-> FALSE,
                   pre |-> e, moved |-> e, reached |-> FALSE],
         nets |-> [classifierForwards |-> 0, navigatorForwards |-> 0, tweenSteps |-> 0,
                   tweenLabel |-> NoAction, tweenInput |-> <<>>, tweened |-> {}]]

\* (mutant) a terrain update that leaves the ice velocity as it is.
TerrainUpdateKeepVel(s) ==
    IF /\ s.loop.now - s.loop.lastTerrainChange >= terrainDuration(s.run.duration)
       /\ s.loop.currentTerrainIdx < Len(terrainSequence) - 1
    THEN [s EXCEPT !.loop.currentTerrainIdx = @ + 1,
                   !.loop.lastTerrainChange = s.loop.now,
                   !.env.Terrain = terrainSequence[s.loop.currentTerrainIdx + 2],
                   !.tick.start = s.env,
                   !.tick.changed = TRUE]
    ELSE [s EXCEPT !.tick.start = s.env, !.tick.changed = FALSE]

\* (mutant) a terrain update that wraps to the first entry after the last.
TerrainUpdateWrap(s) ==
    IF s.loop.now - s.loop.lastTerrainChange >= terrainDuration(s.run.duration)
    THEN [s EXCEPT !.loop.currentTerrainIdx = (@ + 1) % Len(terrainSequence),
                   !.loop.lastTerrainChange = s.loop.now,
                   !.env.Terrain = terrainSequence[((s.loop.currentTerrainIdx + 1) % Len(terrainSequence)) + 1],
                   !.env.IceVelX = 0,
                   !.env.IceVelY = 0,
                   !.tick.start = s.env,
                   !.tick.changed = TRUE]
    ELSE [s EXCEPT !.tick.start = s.env, !.tick.changed = FALSE]

\* (mutant) a terrain update that keeps the changes aligned to the start of the
\* run: lastTerrainChange advances by terrainDuration instead of being set to
\* the clock.
TerrainUpdateAligned(s) ==
    IF /\ s.loop.now - s.loop.lastTerrainChange >= terrainDuration(s.run.duration)
       /\ s.loop.currentTerrainIdx < Len(terrainSequence) - 1
    THEN [s EXCEPT !.loop.currentTerrainIdx = @ + 1,
                   !.loop.lastTerrainChange = @ + terrainDuration(s.run.duration),
                   !.env.Terrain = terrainSequence[s.loop.currentTerrainIdx + 2],
                   !.env.IceVelX = 0,
                   !.env.IceVelY = 0,
                   !.tick.start = s.env,
                   !.tick.changed = TRUE]
    ELSE [s EXCEPT !.tick.start = s.env, !.tick.changed = FALSE]

\* "Update terrain based on sequence": the next entry of terrainSequence once
\* terrainDuration has passed since the last change; the ice velocity is reset.
\* tick.start records the environment the iteration began with, tick.changed
\* whether it took the branch.
TerrainUpdate(s) ==
    IF /\ s.loop.now - s.loop.lastTerrainChange >= terrainDuration(s.run.duration)
       /\ s.loop.currentTerrainIdx < Len(terrainSequence) - 1
    THEN [s EXCEPT !.loop.currentTerrainIdx = @ + 1,
                   !.loop.lastTerrainChange = s.loop.now,
                   !.env.Terrain = terrainSequence[s.loop.currentTerrainIdx + 2],
                   !.env.IceVelX = 0,
                   !.env.IceVelY = 0,
                   !.tick.start = s.env,
                   !.tick.changed = TRUE]
    ELSE [s EXCEPT !.tick.start = s.env, !.tick.changed = FALSE]

\* (mutant) a relay that runs whatever the run's switch says.
RelayActiveAlways(s) == TRUE

\* "if useLink": whether this iteration runs the classifier and reads the link.
RelayActive(s) == s.run.useLink

\* "Get neural link data if enabled": with the relay active the classifier is
\* stepped forward on fresh sensor data and the stage's output (hidden) is cut
\* or padded to LinkSize; otherwise linkData stays nil.
Relay(s, hidden) ==
    IF RelayActive(s)
    THEN [s EXCEPT !.nets.classifierForwards = @ + 1,
                   !.tick.hidden = hidden,
                   !.tick.linkData = Slice(getHiddenActivations(hidden, s.run.linkConfig.LinkSize))]
    ELSE [s EXCEPT !.tick.hidden = <<>>,
                   !.tick.linkData = NilSlice]

\* "Navigator forward pass": the composite input is built and the navigator
\* stepped forward on it.
NavigatorForward(s) ==
    [s EXCEPT !.tick.navInput = buildNavigatorInput(s.env, s.tick.linkData, s.run.linkConfig.LinkSize),
              !.nets.navigatorForwards = @ + 1]

\* "Execute action": the action of the largest output is applied and the tick
\* is counted, as effective when the distance fell by more than 0.001.
ExecuteAction(s, output) ==
    LET action == argmax(output)
        prevDist == distanceToTarget(s.env)
        after == executeActionWithPhysics(s.env, action)
        newDist == distanceToTarget(after)
        gotCloser == newDist < prevDist - CloserEps
    IN  [s EXCEPT !.tick.action = action,
                  !.tick.prevDist = prevDist,
                  !.tick.newDist = newDist,
                  !.tick.gotCloser = gotCloser,
                  !.tick.pre = s.env,
                  !.tick.moved = after,
                  !.env = after,
                  !.loop.windowSteps = @ + 1,
                  !.result.TotalSteps = @ + 1,
                  !.loop.windowEffective = IF gotCloser THEN @ + 1 ELSE @]

\* The network a run of these switches is given as its navigator: main builds
\* one navigator per mode and runs mode i, with useRL for i = 1, 3 and useLink
\* for i = 2, 3, on navigators[i]. All modes share the one classifier.
Navigator(p) ==
    [net |-> "navigator",
     instance |-> (IF p.useLink THEN 2 ELSE 0) + (IF p.useRL THEN 1 ELSE 0)]

\* (mutant) an RL update that does not look at the switch.
RLUpdateAlways(s) ==
    [s EXCEPT !.nets.tweenSteps = @ + 1,
              !.nets.tweenInput = s.tick.navInput,
              !.nets.tweenLabel = IF s.tick.gotCloser
                                  THEN s.tick.action
                                  ELSE suggestAlternativeAction(s.env, s.tick.action),
              !.nets.tweened = @ \cup {Navigator(s.run)}]

\* (mutant) an RL update that always labels with the action taken.
RLUpdateTakenLabel(s) ==
    IF s.run.useRL
    THEN [s EXCEPT !.nets.tweenSteps = @ + 1,
                   !.nets.tweenInput = s.tick.navInput,
                   !.nets.tweenLabel = s.tick.action,
                   !.nets.tweened = @ \cup {Navigator(s.run)}]
    ELSE s

\* "RL update if enabled": one TweenStep on the navigator, labelled with the
\* action taken when it got closer and with the zigzag suggestion otherwise.
RLUpdate(s) ==
    IF s.run.useRL
    THEN [s EXCEPT !.nets.tweenSteps = @ + 1,
                   !.nets.tweenInput = s.tick.navInput,
                   !.nets.tweenLabel = IF s.tick.gotCloser
                                       THEN s.tick.action
                                       ELSE suggestAlternativeAction(s.env, s.tick.action),
                   !.nets.tweened = @ \cup {Navigator(s.run)}]
    ELSE s

\* (mutant) a reset that keeps last action and stuck count.
ResetEnvKeepMemory(e, rand) ==
    [e EXCEPT !.AgentPos = <<Mul(rand[1], ResetSpan), Mul(rand[2], ResetSpan)>>,
              !.TargetPos = <<ResetBase + Mul(rand[3], ResetSpan), ResetBase + Mul(rand[4], ResetSpan)>>,
              !.IceVelX = 0,
              !.IceVelY = 0]

\* "Reset to new position": rand holds the four rand.Float32() values.
ResetEnv(e, rand) ==
    [e EXCEPT !.AgentPos = <<Mul(rand[1], ResetSpan), Mul(rand[2], ResetSpan)>>,
              !.TargetPos = <<ResetBase + Mul(rand[3], ResetSpan), ResetBase + Mul(rand[4], ResetSpan)>>,
              !.LastAction = NoAction,
              !.StuckCount = 0,
              !.IceVelX = 0,
              !.IceVelY = 0]

\* Whether the iteration's move reached the target: newDist < 0.1.
Reached(s) == s.tick.newDist < ReachDist

\* (mutant) a target check that does not count the reach for its terrain.
TargetCheckNoTerrain(s, rand) ==
    IF Reached(s)
    THEN [s EXCEPT !.loop.windowTargets = @ + 1,
                   !.result.TotalTargets = @ + 1,
                   !.env = ResetEnv(s.env, rand),
                   !.tick.reached = TRUE]
    ELSE [s EXCEPT !.tick.reached = FALSE]

\* (mutant) a target check that counts the reach and leaves agent and target
\* where they are.
TargetCheckKeepPlace(s, rand) ==
    IF Reached(s)
    THEN LET name == terrainNames[s.env.Terrain + 1]
         IN  [s EXCEPT !.loop.windowTargets = @ + 1,
                       !.result.TotalTargets = @ + 1,
                       !.result.TerrainResults[name] = @ + 1,
                       !.tick.reached = TRUE]
    ELSE [s EXCEPT !.tick.reached = FALSE]

\* "Check if reached target": the reach is counted and the environment reset.
TargetCheck(s, rand) ==
    IF Reached(s)
    THEN LET name == terrainNames[s.env.Terrain + 1]
         IN  [s EXCEPT !.loop.windowTargets = @ + 1,
                       !.result.TotalTargets = @ + 1,
                       !.result.TerrainResults[name] = @ + 1,
                       !.env = ResetEnv(s.env, rand),
                       !.tick.reached = TRUE]
    ELSE [s EXCEPT !.tick.reached = FALSE]

\* accuracy = float64(effective) / float64(steps) * 100, in units of 1e-4 percent.
Accuracy(effective, steps) == IF steps > 0 THEN RoundDiv(effective * 100 * Unit, steps) ELSE 0

\* (mutant) a window check that keeps windows aligned to the start of the run:
\* lastWindow advances by windowDuration instead of being set to the clock.
WindowCheckAligned(s) ==
    LET t == s.loop.now + s.run.tickDur
    IN  IF t - s.loop.lastWindow >= WindowDuration
        THEN [s EXCEPT !.result.Windows =
                           Append(@, [WindowNum |-> s.loop.windowNum,
                                      Terrain |-> terrainNames[s.env.Terrain + 1],
                                      TargetsReached |-> s.loop.windowTargets,
                                      TotalSteps |-> s.loop.windowSteps,
                                      EffectiveMoves |-> s.loop.windowEffective,
                                      Accuracy |-> Accuracy(s.loop.windowEffective, s.loop.windowSteps)]),
                       !.loop.windowNum = @ + 1,
                       !.loop.windowTargets = 0,
                       !.loop.windowSteps = 0,
                       !.loop.windowEffective = 0,
                       !.loop.lastWindow = @ + WindowDuration,
                       !.loop.now = t]
        ELSE [s EXCEPT !.loop.now = t]

\* (mutant) a window check that seals a window without clearing its step count.
WindowCheckKeepSteps(s) ==
    LET t == s.loop.now + s.run.tickDur
    IN  IF t - s.loop.lastWindow >= WindowDuration
        THEN [s EXCEPT !.result.Windows =
                           Append(@, [WindowNum |-> s.loop.windowNum,
                                      Terrain |-> terrainNames[s.env.Terrain + 1],
                                      TargetsReached |-> s.loop.windowTargets,
                                      TotalSteps |-> s.loop.windowSteps,
                                      EffectiveMoves |-> s.loop.windowEffective,
                                      Accuracy |-> Accuracy(s.loop.windowEffective, s.loop.windowSteps)]),
                       !.loop.windowNum = @ + 1,
                       !.loop.windowTargets = 0,
                       !.loop.windowEffective = 0,
                       !.loop.lastWindow = t,
                       !.loop.now = t]
        ELSE [s EXCEPT !.loop.now = t]

\* "Record window metrics every 500ms": the body has taken tickDur by now; the
\* open window is sealed once windowDuration has passed since lastWindow.
\* (mutant) a window check that labels the window with the terrain the
\* iteration started on.
WindowCheckStartTerrain(s) ==
    LET t == s.loop.now + s.run.tickDur
    IN  IF t - s.loop.lastWindow >= WindowDuration
        THEN [s EXCEPT !.result.Windows =
                           Append(@, [WindowNum |-> s.loop.windowNum,
                                      Terrain |-> terrainNames[s.tick.start.Terrain + 1],
                                      TargetsReached |-> s.loop.windowTargets,
                                      TotalSteps |-> s.loop.windowSteps,
                                      EffectiveMoves |-> s.loop.windowEffective,
                                      Accuracy |-> Accuracy(s.loop.windowEffective, s.loop.windowSteps)]),
                       !.loop.windowNum = @ + 1,
                       !.loop.windowTargets = 0,
                       !.loop.windowSteps = 0,
                       !.loop.windowEffective = 0,
                       !.loop.lastWindow = t,
                       !.loop.now = t]
        ELSE [s EXCEPT !.loop.now = t]

WindowCheck(s) ==
    LET t == s.loop.now + s.run.tickDur
    IN  IF t - s.loop.lastWindow >= WindowDuration
        THEN [s EXCEPT !.result.Windows =
                           Append(@, [WindowNum |-> s.loop.windowNum,
                                      Terrain |-> terrainNames[s.env.Terrain + 1],
                                      TargetsReached |-> s.loop.windowTargets,
                                      TotalSteps |-> s.loop.windowSteps,
                                      EffectiveMoves |-> s.loop.windowEffective,
                                      Accuracy |-> Accuracy(s.loop.windowEffective, s.loop.windowSteps)]),
                       !.loop.windowNum = @ + 1,
                       !.loop.windowTargets = 0,
                       !.loop.windowSteps = 0,
                       !.loop.windowEffective = 0,
                       !.loop.lastWindow = t,
                       !.loop.now = t]
        ELSE [s EXCEPT !.loop.now = t]

\* One iteration up to the RL update: output is the navigator's output vector,
\* hidden the classifier stage's output (read only when the relay runs).
BodyToUpdate(s, output, hidden) ==
    RLUpdate(ExecuteAction(NavigatorForward(Relay(TerrainUpdate(s), hidden)), output))

\* The rest of the iteration: the target check and the window check.
BodyFromCheck(s, rand) == WindowCheck(TargetCheck(s, rand))

\* (mutant) a loop condition that lets an iteration start at the duration.
LoopConditionInclusive(s) == s.loop.now <= s.run.duration

\* "for time.Since(start) < duration"
LoopCondition(s) == s.loop.now < s.run.duration

RECURSIVE SumEffective(_)
SumEffective(ws) == IF ws = <<>> THEN 0 ELSE Head(ws).EffectiveMoves + SumEffective(Tail(ws))

RECURSIVE SumSteps(_)
SumSteps(ws) == IF ws = <<>> THEN 0 ELSE Head(ws).TotalSteps + SumSteps(Tail(ws))

\* (mutant) a final accuracy that is the accuracy of the last sealed window.
FinaliseLastWindow(r) ==
    IF SumSteps(r.Windows) > 0
    THEN [r EXCEPT !.FinalAccuracy = r.Windows[Len(r.Windows)].Accuracy]
    ELSE r

\* "Final accuracy": over the sealed windows; left 0 when they hold no step.
Finalise(r) ==
    IF SumSteps(r.Windows) > 0
    THEN [r EXCEPT !.FinalAccuracy = Accuracy(SumEffective(r.Windows), SumSteps(r.Windows))]
    ELSE r

\* ------------------------------------------------------------- bounds

\* Iterations explored from an initial state.
MaxSteps == 4
\* Iterations of a run started from Setup (its duration is this many ticks).
MaxRunTicks == 2
\* Iterations the history keeps.
TrailLen == 3
\* Largest LinkSize and largest stage width of a run started from Setup.
MaxLinkSize == 2
MaxLayerLen == 2
MaxOutput == 1

\* The navigator's output vectors tried: each action alone on top, and a tie.
Outputs == {[i \in 1..NumActions |-> IF i = a + 1 THEN 1 ELSE 0] : a \in 0..(NumActions - 1)}
               \cup {[i \in 1..NumActions |-> 0]}

\* The output vectors argmax is tried on alone: every vector of NumActions
\* whole values from -MaxOutput to MaxOutput, so that ties and vectors
\* without a positive entry are among them.
OutputVectors == [1..NumActions -> (-MaxOutput)..MaxOutput]

\* The stage outputs tried for a stage of width n: a rising and a falling ramp,
\* so that every entry is non-zero and names its index.
StageOutputs(n) == {[i \in 1..n |-> i], [i \in 1..n |-> -i]}

\* The values of rand.Float32() tried: 0 and 0.3333.
Rands == {0, 3333}

\* The ends of the range of rand.Float32(), [0, 1): 0 and 0.9999.
ExtremeRands == {0, 9999}

\* The link of createDriftConfig, read from the layer of width 16.
MainLink == [SourceLayer |-> 1, TargetOffset |-> 4, LinkSize |-> 16, Enabled |-> TRUE]

\* TargetOffset values tried: the start of the input and the slot after the features.
TargetOffsets == {0, FeatureCount}

\* Runs started from Setup: every switch, link descriptor and stage width within
\* the bounds, for a duration of MaxRunTicks iterations of 350 ms.
FreshRuns ==
    [useLink : BOOLEAN, useRL : BOOLEAN,
     linkConfig : [SourceLayer : {1}, TargetOffset : TargetOffsets,
                   LinkSize : 0..MaxLinkSize, Enabled : BOOLEAN],
     duration : {350 * MaxRunTicks}, tickDur : {350}, layerLen : 0..MaxLayerLen]

\* The run of main: 14 s, without link and with RL, at a given time per iteration.
MainRun(tickDur) ==
    [useLink |-> FALSE, useRL |-> TRUE, linkConfig |-> MainLink,
     duration |-> 14000, tickDur |-> tickDur, layerLen |-> 16]

Rep(a, n) == [i \in 1..n |-> a]

Cycle(pattern, n) == [i \in 1..n |-> pattern[((i - 1) % Len(pattern)) + 1]]

\* Action sequences that take a run of main from Setup to the iteration at which
\* the exploration starts.
ToTarget ==
    Rep(ActionRight, 20) \o Cycle(<<ActionUp, ActionLeft, ActionUp, ActionRight>>, 20)
        \o Rep(ActionRight, 7) \o Rep(ActionUp, 11)

Scenarios ==
    { \* the start of the run
      [p |-> MainRun(100), script |-> <<>>],
      \* on road, one step from the left wall
      [p |-> MainRun(100), script |-> Rep(ActionLeft, 9)],
      \* entering sand in the corner (0, 0)
      [p |-> MainRun(100), script |-> Rep(ActionLeft, 10) \o Rep(ActionDown, 10)],
      \* entering sand at (0.4, 0.4)
      [p |-> MainRun(100), script |-> Rep(ActionRight, 10) \o Rep(ActionUp, 10)],
      \* two iterations before sand ends, stuck
      [p |-> MainRun(100), script |-> Rep(ActionRight, 10) \o Rep(ActionUp, 28)],
      \* entering grass at the left wall
      [p |-> MainRun(100), script |-> Rep(ActionLeft, 60)],
      \* entering ice at the left wall
      [p |-> MainRun(100), script |-> Rep(ActionLeft, 100)],
      \* two iterations before ice ends, moving right
      [p |-> MainRun(100), script |-> Rep(ActionLeft, 100) \o Rep(ActionRight, 18)],
      \* on road, one step from the right wall
      [p |-> MainRun(100),
       script |-> Rep(ActionRight, 20)
                    \o Cycle(<<ActionRight, ActionUp, ActionRight, ActionDown>>, 20)
                    \o Rep(ActionRight, 6)],
      \* on road next to the target, two iterations before grass
      [p |-> MainRun(100), script |-> ToTarget],
      \* entering ice next to the target
      [p |-> MainRun(100), script |-> ToTarget \o Cycle(<<ActionLeft, ActionRight>>, 42)],
      \* on sand next to the target
      [p |-> MainRun(50),
       script |-> Rep(ActionRight, 20) \o Rep(ActionUp, 20)
                    \o <<ActionRight, ActionRight, ActionRight, ActionUp, ActionRight, ActionRight,
                         ActionUp, ActionRight, ActionUp, ActionRight, ActionUp>>],
      \* three iterations before the run ends
      [p |-> MainRun(100), script |-> Rep(ActionLeft, 137)] }

\* A run of runBenchmark with RL, of a given time per iteration, duration, link
\* and switch; the classifier stage read has the 16 outputs of createDriftConfig.
RunOf(tickDur, duration, link, useLink) ==
    [useLink |-> useLink, useRL |-> TRUE, linkConfig |-> link,
     duration |-> duration, tickDur |-> tickDur, layerLen |-> 16]

\* The input width the navigator of createDriftConfig declares: "input_size": 20.
NavigatorInputSize == 20

\* A link one slot wider than the navigator's declared input leaves room for.
WideLink ==
    [SourceLayer |-> 1, TargetOffset |-> FeatureCount,
     LinkSize |-> NavigatorInputSize - FeatureCount + 1, Enabled |-> TRUE]

\* Runs of other durations and times per iteration, each with the actions that
\* take it from Setup to the iteration at which the exploration starts.
RunScenarios ==
    { \* 1.05 s in iterations of 350 ms: three iterations
      [p |-> RunOf(350, 1050, MainLink, FALSE), script |-> <<>>],
      \* 1 s in iterations of 250 ms: four iterations
      [p |-> RunOf(250, 1000, MainLink, FALSE), script |-> <<>>],
      \* 0.45 s in iterations of 100 ms: five iterations, the last ends at 0.5 s
      [p |-> RunOf(100, 450, MainLink, FALSE), script |-> <<ActionUp>>],
      \* 14 s in iterations of 100 ms, one iteration before the first terrain change
      [p |-> RunOf(100, 14000, MainLink, FALSE), script |-> Rep(ActionUp, 19)],
      \* 14 s in iterations of 300 ms, at 5.7 s
      [p |-> RunOf(300, 14000, MainLink, FALSE), script |-> Rep(ActionUp, 19)],
      \* a run too short to seal a window, with the clock counted in nanoseconds:
      \* 13 ns in iterations of 1 ns, after 6 of them; terrainDuration is the
      \* integer quotient 13 / 7 = 1, so the schedule is used up before the run ends
      [p |-> RunOf(1, 13, MainLink, FALSE), script |-> Rep(ActionUp, 6)],
      \* 0.2 s with a link wider than the navigator's input allows
      [p |-> RunOf(100, 200, WideLink, TRUE), script |-> <<>>],
      \* 2.8 s in iterations of 200 ms: windows of three iterations, the first
      \* terrain change on the third
      [p |-> RunOf(200, 2800, MainLink, FALSE), script |-> <<>>],
      \* 14.006 s in iterations of 100 ms, at 13.8 s and one step from the
      \* target: the iteration that starts at 14.0 s runs after the last seal
      [p |-> RunOf(100, 14006, MainLink, FALSE),
       script |-> ToTarget \o Cycle(<<ActionLeft, ActionRight>>, 80)] }

\* One scripted iteration: the scripted action, a stage output of zeros, and
\* rand.Float32() = 0.3333 should a reset happen.
ScriptTick(s, action) ==
    LET out == [i \in 1..NumActions |-> IF i = action + 1 THEN 1 ELSE 0]
        s1 == BodyToUpdate(s, out, Rep(0, s.run.layerLen))
    IN  BodyFromCheck(s1, <<3333, 3333, 3333, 3333>>)

\* The state after the iterations lo..hi of script, by halves.
RECURSIVE RunScript(_, _, _, _)
RunScript(s, script, lo, hi) ==
    IF lo > hi THEN s
    ELSE IF lo = hi THEN ScriptTick(s, script[lo])
    ELSE LET mid == (lo + hi) \div 2
             half == RunScript(s, script, lo, mid)
         IN  IF half.loop.now >= 0 THEN RunScript(half, script, mid + 1, hi) ELSE half

Load(s) ==
    /\ run = s.run
    /\ env = s.env
    /\ loop = s.loop
    /\ result = s.result
    /\ tick = s.tick
    /\ nets = s.nets
    /\ pc = "loop"
    /\ conf = ConfOf("MultiTerrainNeuralLink")
    /\ explored = 0
    /\ trail = <<>>

\* runBenchmark called: the state its setup builds.
Init == \E p \in FreshRuns : Load(Setup(p))

\* A run of main observed from a later iteration on: the state its loop holds
\* after a scripted beginning.
InitScenario == \E sc \in Scenarios : Load(RunScript(Setup(sc.p), sc.script, 1, Len(sc.script)))

\* A run of another duration or time per iteration, observed the same way.
InitRuns == \E sc \in RunScenarios : Load(RunScript(Setup(sc.p), sc.script, 1, Len(sc.script)))

\* The history with the iteration of locals t added, cut to TrailLen entries.
Remember(h, t) ==
    LET all == Append(h, [pre |-> t.pre, action |-> t.action, moved |-> t.moved,
                          reached |-> t.reached])
    IN  IF Len(all) > TrailLen THEN Tail(all) ELSE all

\* One iteration of the loop of runBenchmark, rand.Float32() drawing from rands.
TickWith(rands) ==
    /\ pc = "loop"
    /\ LoopCondition(Cur)
    /\ explored < MaxSteps
    /\ \E output \in Outputs :
         \E hidden \in (IF RelayActive(Cur) THEN StageOutputs(run.layerLen) ELSE {<<>>}) :
           LET s1 == BodyToUpdate(Cur, output, hidden)
           IN  \E rand \in (IF Reached(s1) THEN [1..4 -> rands] ELSE {<<0, 0, 0, 0>>}) :
                 LET s2 == BodyFromCheck(s1, rand)
                 IN  /\ env' = s2.env
                     /\ loop' = s2.loop
                     /\ result' = s2.result
                     /\ tick' = s2.tick
                     /\ nets' = s2.nets
                     /\ trail' = Remember(trail, s2.tick)
    /\ explored' = explored + 1
    /\ UNCHANGED <<run, pc, conf>>

Tick == TickWith(Rands)

\* The loop has ended: the final accuracy is computed and the result returned.
Return ==
    /\ pc = "loop"
    /\ ~LoopCondition(Cur)
    /\ result' = Finalise(result)
    /\ pc' = "done"
    /\ UNCHANGED <<run, env, loop, tick, nets, conf, explored, trail>>

Next == Tick \/ Return

Spec == Init /\ [][Next]_vars

SpecScenario == InitScenario /\ [][Next]_vars

\* A run of main observed from an iteration on at which one move can take the
\* agent within reach of the target, the resets drawing from the ends of the
\* range of rand.Float32().
InitReach ==
    \E sc \in Scenarios :
        LET s == RunScript(Setup(sc.p), sc.script, 1, Len(sc.script))
        IN  /\ distanceToTarget(s.env) < ReachDist + Mul(Speed, SandFast)
            /\ Load(s)

TickExtreme == TickWith(ExtremeRands)

NextReach == TickExtreme

SpecReach == InitReach /\ [][NextReach]_vars

\* An iteration starts: the step of Tick, told by its guard and its count.
TickStarts ==
    /\ pc = "loop"
    /\ LoopCondition(Cur)
    /\ explored < MaxSteps
    /\ explored' = explored + 1

\* The loop is left: the step of Return, told by its guard and where it goes.
Returns ==
    /\ pc = "loop"
    /\ ~LoopCondition(Cur)
    /\ pc' = "done"

\* The loop is sequential code on one goroutine: an iteration that can start
\* does start, and when the loop condition fails the function returns.
SpecLive == Init /\ [][Next]_vars /\ WF_explored(TickStarts) /\ WF_pc(Returns)

\* The selection of an action taken alone: the navigator has produced an
\* output vector, and "action := argmax(output)" is the next statement.
InitArgmax ==
    /\ \E output \in OutputVectors :
         LET s == Setup(MainRun(100))
         IN  /\ run = s.run
             /\ env = s.env
             /\ loop = s.loop
             /\ result = s.result
             /\ nets = s.nets
             /\ tick = [output |-> output] @@ s.tick
    /\ pc = "select"
    /\ conf = ConfOf("MultiTerrainNeuralLink")
    /\ explored = 0
    /\ trail = <<>>

\* action := argmax(output)
SelectAction ==
    /\ pc = "select"
    /\ tick' = [tick EXCEPT !.action = argmax(tick.output)]
    /\ pc' = "selected"
    /\ UNCHANGED <<run, env, loop, result, nets, conf, explored, trail>>

NextArgmax == SelectAction

SpecArgmax == InitArgmax /\ [][NextArgmax]_vars

SpecRuns == InitRuns /\ [][Next]_vars

\* ------------------------------------------------- handling a config

\* Links a config is given at most.
MaxLinks == 2

\* The config names, model names, model values and links tried.
ConfigNames == {"MultiTerrainNeuralLink", BadUtf8}

ModelNames == {"classifier", "navigator"}

ModelValues == {"classifierDef", "navigatorDef", Unmarshalable}

LinkChoices ==
    { [Name |-> n, SourceModel |-> ends[1], SourceLayer |-> 1, TargetModel |-> ends[2],
       TargetOffset |-> 4, LinkSize |-> 16, Enabled |-> e, Description |-> "hidden to input"] :
        n \in {"terrain_to_nav", BadUtf8},
        ends \in {<<"classifier", "navigator">>, <<"navigator", "classifier">>},
        e \in BOOLEAN }

\* drift.NewConfig(name)
InitConfig ==
    \E name \in ConfigNames :
        /\ run = Setup(MainRun(100)).run
        /\ env = Setup(MainRun(100)).env
        /\ loop = Setup(MainRun(100)).loop
        /\ result = Setup(MainRun(100)).result
        /\ tick = Setup(MainRun(100)).tick
        /\ nets = Setup(MainRun(100)).nets
        /\ pc = "build"
        /\ conf = ConfOf(name)
        /\ explored = 0
        /\ trail = <<>>

\* c.AddModel(name, model)
DoAddModel ==
    /\ pc = "build"
    /\ \E name \in ModelNames, model \in ModelValues :
         LET r == AddModel(conf.c, name, model)
         IN  /\ conf' = [conf EXCEPT !.c = r.c, !.err = r.err]
             /\ pc' = IF r.panic THEN "panic" ELSE pc
    /\ UNCHANGED <<run, env, loop, result, tick, nets, explored, trail>>

\* c.AddLink(link)
DoAddLink ==
    /\ pc = "build"
    /\ Len(conf.c.Links.data) < MaxLinks
    /\ \E link \in LinkChoices :
         conf' = [conf EXCEPT !.c = AddLink(conf.c, link), !.err = FALSE]
    /\ UNCHANGED <<run, env, loop, result, tick, nets, pc, explored, trail>>

\* var target T; err := c.GetModel(name, &target)
DoGetModel ==
    /\ pc = "build"
    /\ \E name \in ModelNames :
         LET r == GetModel(conf.c, name, TargetBefore)
         IN  conf' = [conf EXCEPT !.got = [asked |-> TRUE, name |-> name,
                                          target |-> r.target, err |-> r.err]]
    /\ UNCHANGED <<run, env, loop, result, tick, nets, pc, explored, trail>>

\* loaded.GetLinksBySource(m) and loaded.GetLinksByTarget(m) on the config loaded
DoGetLinks ==
    /\ pc = "loaded"
    /\ conf.loaded.ok
    /\ \E m \in ModelNames :
         conf' = [conf EXCEPT !.found = [asked |-> TRUE, model |-> m,
                                         bySource |-> GetLinksBySource(conf.loaded.c, m),
                                         byTarget |-> GetLinksByTarget(conf.loaded.c, m)]]
    /\ UNCHANGED <<run, env, loop, result, tick, nets, pc, explored, trail>>

\* c.SaveToFile(path): the document is written to the file.
DoSaveToFile ==
    /\ pc = "build"
    /\ conf' = [conf EXCEPT !.saved = [kind |-> "file", doc |-> MarshalIndent(conf.c)],
                            !.err = FALSE]
    /\ pc' = "saved"
    /\ UNCHANGED <<run, env, loop, result, tick, nets, explored, trail>>

\* c.ToJSON(): the document is returned as a string.
DoToJSON ==
    /\ pc = "build"
    /\ conf' = [conf EXCEPT !.saved = [kind |-> "string", doc |-> MarshalIndent(conf.c)],
                            !.err = FALSE]
    /\ pc' = "saved"
    /\ UNCHANGED <<run, env, loop, result, tick, nets, explored, trail>>

\* drift.LoadFromFile(path): the file is read and unmarshalled; without a file
\* os.ReadFile fails and the error is returned with a nil config.
DoLoadFromFile ==
    /\ pc \in {"build", "saved"}
    /\ conf.saved.kind # "string"
    /\ IF conf.saved.kind = "file"
       THEN /\ conf' = [conf EXCEPT !.loaded = [ok |-> TRUE, c |-> Unmarshal(conf.saved.doc)],
                                    !.err = FALSE]
            /\ pc' = "loaded"
       ELSE /\ conf' = [conf EXCEPT !.err = TRUE]
            /\ pc' = pc
    /\ UNCHANGED <<run, env, loop, result, tick, nets, explored, trail>>

\* drift.FromJSON(data) on the string ToJSON returned.
DoFromJSON ==
    /\ pc = "saved"
    /\ conf.saved.kind = "string"
    /\ conf' = [conf EXCEPT !.loaded = [ok |-> TRUE, c |-> Unmarshal(conf.saved.doc)],
                            !.err = FALSE]
    /\ pc' = "loaded"
    /\ UNCHANGED <<run, env, loop, result, tick, nets, explored, trail>>

NextConfig ==
    \/ DoAddModel
    \/ DoGetModel
    \/ DoAddLink
    \/ DoGetLinks
    \/ DoSaveToFile
    \/ DoToJSON
    \/ DoLoadFromFile
    \/ DoFromJSON

SpecConfig == InitConfig /\ [][NextConfig]_vars

\* Documents a caller hands to FromJSON, or keeps in the file LoadFromFile
\* reads: a name and no links, with no "models" member, with "models": null,
\* with an empty "models" object, or with one model in it.
Documents ==
    { [name |-> Quote(n), modelsMember |-> k, models |-> m,
       links |-> [present |-> FALSE, items |-> <<>>]] :
        n \in ConfigNames,
        k \in {"absent", "null"},
        m \in {[x \in {} |-> 0]} }
      \cup
    { [name |-> Quote(n), modelsMember |-> "object", models |-> m,
       links |-> [present |-> FALSE, items |-> <<>>]] :
        n \in ConfigNames,
        m \in {[x \in {} |-> 0],
               [x \in {"classifier"} |-> [value |-> "classifierDef", layout |-> "indented"]]} }

\* A config as one of the three constructors returns it: NewConfig(name),
\* FromJSON(data) or LoadFromFile(path) of a document.
InitObtained ==
    /\ run = Setup(MainRun(100)).run
    /\ env = Setup(MainRun(100)).env
    /\ loop = Setup(MainRun(100)).loop
    /\ result = Setup(MainRun(100)).result
    /\ tick = Setup(MainRun(100)).tick
    /\ nets = Setup(MainRun(100)).nets
    /\ pc = "build"
    /\ \/ \E name \in ConfigNames : conf = ConfOf(name)
       \/ \E doc \in Documents, kind \in {"string", "file"} :
             conf = [ConfOf(doc.name.text) EXCEPT !.c = Unmarshal(doc),
                                                 !.saved = [kind |-> kind, doc |-> doc]]
    /\ explored = 0
    /\ trail = <<>>

\* The models of the config obtained are added and looked up.
NextObtained ==
    \/ DoAddModel
    \/ DoGetModel

SpecObtained == InitObtained /\ [][NextObtained]_vars

\* ------------------------------------------------------------- claims

\* An iteration has run: the locals in tick are those of an iteration.
Ticked == result.TotalSteps > 0

\* The link slots of the latest composite input: input[4 .. 4+LinkSize-1].
LinkSlots == {FeatureCount + i : i \in 1..run.linkConfig.LinkSize}

\* C1 (as claimed): with a link whose Enabled flag is false, in every iteration
\* the input has its LinkSize link slots, all zero, and the classifier has run
\* no forward pass, whatever useLink is.
C1_DisabledLinkIsZero ==
    (Ticked /\ ~run.linkConfig.Enabled) =>
        /\ Len(tick.navInput) = FeatureCount + run.linkConfig.LinkSize
        /\ \A j \in LinkSlots : tick.navInput[j] = 0
        /\ nets.classifierForwards = 0

\* C2: the relay returns exactly LinkSize entries: entry i is the stage's entry i
\* for i < min(L, LinkSize) and 0 from there on.
C2_RelayWidth ==
    (Ticked /\ ~tick.linkData.isNil) =>
        LET W == run.linkConfig.LinkSize
            L == Len(tick.hidden)
            d == tick.linkData.data
        IN  /\ Len(d) = W
            /\ \A i \in 1..W : (i <= L => d[i] = tick.hidden[i]) /\ (i > L => d[i] = 0)

\* C2 witness: the relay has padded a stage output narrower than the link.
C2_Witness ==
    /\ Ticked
    /\ ~tick.linkData.isNil
    /\ Len(tick.hidden) > 0
    /\ Len(tick.hidden) < run.linkConfig.LinkSize
    /\ tick.linkData.data[1] # 0
    /\ tick.linkData.data[run.linkConfig.LinkSize] = 0

\* The relay has cut a stage output wider than the link.
C2_Truncated ==
    /\ Ticked
    /\ ~tick.linkData.isNil
    /\ run.linkConfig.LinkSize > 0
    /\ Len(tick.hidden) > run.linkConfig.LinkSize

\* Relayed value i (from 1) of the latest iteration; zero without a relay.
Relayed(i) == IF tick.linkData.isNil THEN 0 ELSE tick.linkData.data[i]

\* C3 (as claimed): the input carries relayed value i at index TargetOffset + i,
\* and every index that is neither a task feature nor in that range is zero.
C3_LinkAtTargetOffset ==
    Ticked =>
        LET off == run.linkConfig.TargetOffset
            W == run.linkConfig.LinkSize
        IN  /\ \A i \in 1..W :
                 /\ off + i <= Len(tick.navInput)
                 /\ tick.navInput[off + i] = Relayed(i)
            /\ \A j \in 1..Len(tick.navInput) :
                 (j > FeatureCount /\ j \notin (off + 1)..(off + W)) => tick.navInput[j] = 0

\* C4: in a run with useLink = false the input of every iteration has length
\* 4 + LinkSize with all link slots zero, and the classifier never ran.
C4_NoLinkRun ==
    (Ticked /\ ~run.useLink) =>
        /\ Len(tick.navInput) = FeatureCount + run.linkConfig.LinkSize
        /\ \A j \in LinkSlots : tick.navInput[j] = 0
        /\ nets.classifierForwards = 0
        /\ tick.linkData.isNil

\* C4 witness: a run without link has returned after several iterations on an
\* input with link slots.
C4_Witness ==
    /\ pc = "done"
    /\ ~run.useLink
    /\ result.TotalSteps >= 2
    /\ run.linkConfig.LinkSize > 0
    /\ nets.navigatorForwards = result.TotalSteps

\* Both coordinates of a position lie in [0, 1].
InSquare(pos) == pos[1] \in 0..Unit /\ pos[2] \in 0..Unit

\* C5: both agent coordinates are within [0, 1] after every iteration, after its
\* move and after its reset, on every terrain.
C5_AgentInSquare ==
    /\ InSquare(env.AgentPos)
    /\ InSquare(tick.moved.AgentPos)
    /\ \A i \in 1..Len(trail) : InSquare(trail[i].moved.AgentPos)

\* C5 witness: a move on ice that would have left the square at the left wall
\* was clamped onto it.
C5_Witness ==
    /\ explored > 0
    /\ tick.pre.Terrain = TerrainIce
    /\ tick.pre.AgentPos[1] + tick.moved.IceVelX < 0
    /\ tick.moved.AgentPos[1] = 0

\* A move on road that would have left the square at the right wall was clamped.
C5_UpperClamp ==
    /\ explored > 0
    /\ tick.pre.Terrain = TerrainRoad
    /\ tick.pre.AgentPos[1] + MoveOf(tick.action)[1] > Unit
    /\ tick.moved.AgentPos[1] = Unit

\* The latest three iterations applied the same action on sand, the first of
\* them from StuckCount 0, with no reset among them.
ThreeAlikeOnSand ==
    /\ Len(trail) >= 3
    /\ LET n == Len(trail)
       IN  /\ \A i \in (n - 2)..n : trail[i].pre.Terrain = TerrainSand
           /\ trail[n - 1].action = trail[n - 2].action
           /\ trail[n].action = trail[n - 2].action
           /\ trail[n - 2].pre.StuckCount = 0
           /\ ~trail[n - 2].reached
           /\ ~trail[n - 1].reached

\* The position the agent has after a move of factor * speed from env, clamped.
Stepped(e, action, factor) ==
    <<clamp(e.AgentPos[1] + Mul(MoveOf(action)[1], factor), 0, Unit),
      clamp(e.AgentPos[2] + Mul(MoveOf(action)[2], factor), 0, Unit)>>

\* C6 (as claimed): on sand, from StuckCount 0 and whatever the recorded last
\* action, the third of three iterations with the same action does not move.
C6_ThirdRepeatStill ==
    ThreeAlikeOnSand =>
        trail[Len(trail)].moved.AgentPos = trail[Len(trail)].pre.AgentPos

\* C6 (amended): on sand, from StuckCount 0, the third of three iterations with
\* the same action does not move when the recorded last action was that action;
\* when it was another one (or none) the third is a damped move of 0.3 x speed
\* that leaves StuckCount at 2.
C6_ThirdRepeat ==
    ThreeAlikeOnSand =>
        LET n == Len(trail)
            first == trail[n - 2]
            third == trail[n]
        IN  IF first.pre.LastAction = first.action
            THEN /\ third.moved.AgentPos = third.pre.AgentPos
                 /\ third.moved.StuckCount = 3
            ELSE /\ third.moved.AgentPos = Stepped(third.pre, third.action, SandSlow)
                 /\ third.moved.StuckCount = 2

\* C6 witness: three repeats of the recorded last action from StuckCount 0; the
\* second moved, the third did not.
C6_Witness ==
    /\ ThreeAlikeOnSand
    /\ trail[Len(trail) - 2].pre.LastAction = trail[Len(trail)].action
    /\ trail[Len(trail) - 1].moved.AgentPos # trail[Len(trail) - 1].pre.AgentPos
    /\ trail[Len(trail)].moved.AgentPos = trail[Len(trail)].pre.AgentPos

\* C7: on sand, an iteration whose action differs from the action of the
\* iteration before leaves StuckCount at 0 and moves the agent by 1.5 x speed in
\* the requested direction (then clamped).
C7_ChangedActionOnSand ==
    (Len(trail) >= 2 /\ trail[Len(trail)].pre.Terrain = TerrainSand
        /\ trail[Len(trail)].action # trail[Len(trail) - 1].action) =>
        LET last == trail[Len(trail)]
        IN  /\ last.moved.StuckCount = 0
            /\ env.StuckCount = 0
            /\ last.moved.AgentPos = Stepped(last.pre, last.action, SandFast)

\* C7 witness: a changed action on sand after a counted repeat: StuckCount went
\* from above 0 back to 0 and the agent moved by the full 1.5 x speed.
C7_Witness ==
    /\ Len(trail) >= 2
    /\ LET last == trail[Len(trail)]
           before == trail[Len(trail) - 1]
       IN  /\ last.pre.Terrain = TerrainSand
           /\ before.pre.Terrain = TerrainSand
           /\ last.action # before.action
           /\ last.pre.StuckCount > 0
           /\ last.moved.StuckCount = 0
           /\ Abs(last.moved.AgentPos[1] - last.pre.AgentPos[1])
                + Abs(last.moved.AgentPos[2] - last.pre.AgentPos[2]) = Mul(Speed, SandFast)

\* The latest iteration moved on ice.
OnIce == explored > 0 /\ tick.pre.Terrain = TerrainIce

\* The latest action requests the direction opposite to the velocity it met.
Reversal ==
    \/ MoveOf(tick.action)[1] * tick.pre.IceVelX < 0
    \/ MoveOf(tick.action)[2] * tick.pre.IceVelY < 0

\* The square of the distance between two positions.
Dist2(a, b) == (a[1] - b[1]) * (a[1] - b[1]) + (a[2] - b[2]) * (a[2] - b[2])

\* What one ice iteration does to velocity and position.
IceLaw ==
    LET m == MoveOf(tick.action)
        vx == Mul(tick.pre.IceVelX, Unit - Friction) + Mul(m[1], Friction)
        vy == Mul(tick.pre.IceVelY, Unit - Friction) + Mul(m[2], Friction)
    IN  /\ tick.moved.IceVelX = vx
        /\ tick.moved.IceVelY = vy
        /\ tick.moved.AgentPos = <<clamp(tick.pre.AgentPos[1] + vx, 0, Unit),
                                   clamp(tick.pre.AgentPos[2] + vy, 0, Unit)>>

\* C8 (as claimed): on ice each velocity component becomes v_prev*(1-f) +
\* requested*f and the position advances by it, clamped; an iteration that
\* reverses the velocity changes the position by less than it would on road.
C8_ReversalLessThanRoad ==
    OnIce =>
        /\ IceLaw
        /\ Reversal =>
             Dist2(tick.moved.AgentPos, tick.pre.AgentPos)
                 < Dist2(RoadStep(tick.pre, tick.action).AgentPos, tick.pre.AgentPos)

\* The road step from where the latest iteration moved would not be clamped.
RoadFree ==
    Dist2(RoadStep(tick.pre, tick.action).AgentPos, tick.pre.AgentPos) = Speed * Speed

\* C8 (amended): on ice each velocity component becomes v_prev*(1-f) +
\* requested*f and the position advances by it, clamped; an iteration that
\* reverses the velocity gets a velocity, its move before clamping, shorter than
\* the road step of 0.02, and changes the position by less than it would on road
\* wherever the road step is not clamped by a wall.
C8_IceStep ==
    OnIce =>
        /\ IceLaw
        /\ Reversal =>
             /\ tick.moved.IceVelX * tick.moved.IceVelX
                  + tick.moved.IceVelY * tick.moved.IceVelY < Speed * Speed
             /\ RoadFree =>
                  Dist2(tick.moved.AgentPos, tick.pre.AgentPos)
                      < Dist2(RoadStep(tick.pre, tick.action).AgentPos, tick.pre.AgentPos)

\* C8 witness: a reversal on ice away from the walls: the agent kept sliding the
\* old way, by less than a road step.
C8_Witness ==
    /\ OnIce
    /\ Reversal
    /\ tick.pre.IceVelX > 0
    /\ tick.action = ActionLeft
    /\ tick.moved.IceVelX > 0
    /\ tick.moved.AgentPos[1] = tick.pre.AgentPos[1] + tick.moved.IceVelX
    /\ tick.moved.AgentPos[1] < Unit

\* C9 (as claimed): in an iteration that changes the terrain, stuck counter and
\* velocity are both zero before the action is applied.
C9_ChangeResetsBoth ==
    tick.changed =>
        /\ tick.pre.StuckCount = 0
        /\ tick.pre.IceVelX = 0
        /\ tick.pre.IceVelY = 0

\* C9 (amended): in an iteration that changes the terrain the velocity is zero
\* before the action is applied; the stuck counter keeps the value it had, which
\* is 0 whenever the new terrain is sand.
C9_ChangeResetsVelocity ==
    tick.changed =>
        /\ tick.pre.Terrain # tick.start.Terrain
        /\ tick.pre.IceVelX = 0
        /\ tick.pre.IceVelY = 0
        /\ tick.pre.StuckCount = tick.start.StuckCount
        /\ tick.pre.Terrain = TerrainSand => tick.pre.StuckCount = 0

\* C9 witness: the terrain changed from ice while the agent was sliding.
C9_Witness ==
    /\ explored > 0
    /\ tick.changed
    /\ tick.start.Terrain = TerrainIce
    /\ tick.start.IceVelX # 0
    /\ tick.pre.IceVelX = 0

\* The terrain changed from sand with a stuck count above zero.
C9_StuckCarried ==
    /\ explored > 0
    /\ tick.changed
    /\ tick.start.Terrain = TerrainSand
    /\ tick.pre.StuckCount > 0

\* The state the next iteration starts with has last action, stuck counter and
\* velocity cleared.
MemoryCleared ==
    /\ env.LastAction = NoAction
    /\ env.StuckCount = 0
    /\ env.IceVelX = 0
    /\ env.IceVelY = 0

\* C10 (as claimed): after an iteration whose move ended closer than 0.1 to the
\* target, agent and target position both differ from those before the reset,
\* and last action, stuck counter and velocity are cleared.
C10_BothPositionsDiffer ==
    (explored > 0 /\ tick.newDist < ReachDist) =>
        /\ env.AgentPos # tick.moved.AgentPos
        /\ env.TargetPos # tick.moved.TargetPos
        /\ MemoryCleared

\* C10 (amended): after an iteration whose move ended closer than 0.1 to the
\* target, the agent is at a new position in [0, 0.3]^2, the target is redrawn
\* in [0.7, 1]^2 (where it may fall on the old target), and last action, stuck
\* counter and velocity are cleared.
C10_ResetOnReach ==
    (explored > 0 /\ tick.newDist < ReachDist) =>
        /\ tick.reached
        /\ env.AgentPos # tick.moved.AgentPos
        /\ env.AgentPos[1] \in 0..ResetSpan
        /\ env.AgentPos[2] \in 0..ResetSpan
        /\ env.TargetPos[1] \in ResetBase..Unit
        /\ env.TargetPos[2] \in ResetBase..Unit
        /\ MemoryCleared

\* C10 witness: the target was reached on sand by a counted repeat, and the
\* reset drew a target other than the old one.
C10_Witness ==
    /\ explored > 0
    /\ tick.newDist < ReachDist
    /\ tick.moved.StuckCount > 0
    /\ tick.moved.LastAction # NoAction
    /\ env.TargetPos # tick.moved.TargetPos
    /\ env.StuckCount = 0

\* The target was reached on ice while the agent was sliding.
C10_ReachedSliding ==
    /\ explored > 0
    /\ tick.reached
    /\ tick.pre.Terrain = TerrainIce
    /\ tick.moved.IceVelX # 0
    /\ env.IceVelX = 0

\* ceil(a / b) for positive b.
CeilDiv(a, b) == (a + b - 1) \div b

\* C11 (as claimed): a run of duration D seals floor(D / W) windows, whatever
\* the time an iteration takes.
C11_WindowsFloor ==
    pc = "done" => Len(result.Windows) = run.duration \div WindowDuration

\* C11 (amended): a window is sealed at the end of the first iteration that ends
\* at least W after the last seal, so a run of ceil(D / tick) iterations seals
\* floor(ceil(D / tick) / ceil(W / tick)) windows; that is floor(D / W) when the
\* time per iteration divides both W and D.
C11_WindowsSealed ==
    pc = "done" =>
        /\ Len(result.Windows)
             = CeilDiv(run.duration, run.tickDur) \div CeilDiv(WindowDuration, run.tickDur)
        /\ (WindowDuration % run.tickDur = 0 /\ run.duration % run.tickDur = 0) =>
             Len(result.Windows) = run.duration \div WindowDuration

\* C11 witness: a run whose iterations divide W and D has returned with its two
\* windows sealed.
C11_Witness ==
    /\ pc = "done"
    /\ WindowDuration % run.tickDur = 0
    /\ run.duration % run.tickDur = 0
    /\ Len(result.Windows) = 2
    /\ explored = 4

\* C12: the steps of the sealed windows and of the open accumulator add up to
\* the iterations executed, at every moment and at the return; the return
\* appends no window, so the open accumulator's steps are left out of the result.
C12_StepsAccounted ==
    /\ SumSteps(result.Windows) + loop.windowSteps = result.TotalSteps
    /\ Len(result.Windows) = loop.windowNum
    /\ \A i \in 1..Len(result.Windows) : result.Windows[i].WindowNum = i - 1
    /\ pc = "done" => SumSteps(result.Windows) = result.TotalSteps - loop.windowSteps

\* C12 witness: a run has returned with sealed windows and an iteration left in
\* the open accumulator.
C12_Witness ==
    /\ pc = "done"
    /\ Len(result.Windows) > 0
    /\ loop.windowSteps > 0
    /\ SumSteps(result.Windows) < result.TotalSteps

\* The latest iteration succeeded: the distance fell by more than 0.001.
GotCloser == tick.newDist < tick.prevDist - CloserEps

\* C13: in a run with RL every iteration issues exactly one TweenStep on the
\* navigator, with the iteration's composite input; its label is the action
\* taken when the distance fell by more than 0.001 and the corrective action
\* otherwise, also when the agent did not move.
C13_OneUpdatePerTick ==
    /\ nets.tweenSteps = (IF run.useRL THEN result.TotalSteps ELSE 0)
    /\ (run.useRL /\ Ticked) =>
         /\ nets.tweenInput = tick.navInput
         /\ nets.tweenLabel = IF GotCloser
                              THEN tick.action
                              ELSE suggestAlternativeAction(tick.moved, tick.action)
         /\ tick.gotCloser = GotCloser

\* C13 witness: in a run with RL an iteration that did not move the agent was
\* labelled with an action other than the one taken.
C13_Witness ==
    /\ run.useRL
    /\ explored > 0
    /\ tick.moved.AgentPos = tick.pre.AgentPos
    /\ ~GotCloser
    /\ nets.tweenLabel # tick.action
    /\ nets.tweenSteps = result.TotalSteps

\* In a run with RL a successful iteration was labelled with the action taken.
C13_Success ==
    /\ run.useRL
    /\ explored > 0
    /\ GotCloser
    /\ nets.tweenLabel = tick.action

\* The direction toward the target along x, and along y, after the latest move.
TowardX == IF tick.moved.TargetPos[1] > tick.moved.AgentPos[1] THEN ActionRight ELSE ActionLeft
TowardY == IF tick.moved.TargetPos[2] > tick.moved.AgentPos[2] THEN ActionUp ELSE ActionDown

\* C14 (as claimed): on a failed iteration the label alternates the axis of the
\* iteration before: horizontal toward the target when that one's action was Up
\* or Down, vertical toward the target when it was Left or Right.
C14_AlternatesPreviousAxis ==
    (run.useRL /\ Len(trail) >= 2 /\ ~GotCloser) =>
        LET before == trail[Len(trail) - 1].action
        IN  nets.tweenLabel = IF before = ActionUp \/ before = ActionDown
                              THEN TowardX
                              ELSE TowardY

\* What the code does on a failed iteration: the label alternates the axis of
\* the action just taken, which executeActionWithPhysics has stored in
\* LastAction before suggestAlternativeAction reads it.
C14_AlternatesTakenAxis ==
    (run.useRL /\ Ticked /\ ~GotCloser) =>
        nets.tweenLabel = IF tick.action = ActionUp \/ tick.action = ActionDown
                          THEN TowardX
                          ELSE TowardY

\* The index of the last entry of the terrain schedule.
LastIdx == Len(terrainSequence) - 1

\* C15: the schedule index starts at the first entry, stays within the schedule,
\* changes only by advancing one position through Road, Sand, Road, Grass, Road,
\* Ice, Road, and the active terrain is always the entry at the index.
C15_ScheduleAdvances ==
    /\ [](/\ loop.currentTerrainIdx \in 0..LastIdx
          /\ LastIdx = 6
          /\ env.Terrain = <<TerrainRoad, TerrainSand, TerrainRoad, TerrainGrass,
                             TerrainRoad, TerrainIce, TerrainRoad>>[loop.currentTerrainIdx + 1]
          /\ result.TotalSteps = 0 => loop.currentTerrainIdx = 0)
    /\ [][\/ loop'.currentTerrainIdx = loop.currentTerrainIdx
          \/ loop'.currentTerrainIdx = loop.currentTerrainIdx + 1]_vars

\* C15 witness: at the last entry, with terrainDuration passed since the last
\* change, an iteration left the index where it was.
C15_Witness ==
    /\ explored > 0
    /\ ~tick.changed
    /\ loop.currentTerrainIdx = LastIdx
    /\ (loop.now - run.tickDur) - loop.lastTerrainChange >= terrainDuration(run.duration)

\* The elapsed time at which the latest iteration started.
TickStart == loop.now - run.tickDur

\* C16 (as claimed): an iteration that starts at elapsed time t runs on schedule
\* entry min(N-1, floor(t / (D/N))), whatever the time an iteration takes.
C16_EvenShares ==
    Ticked =>
        loop.currentTerrainIdx
            = Min(LastIdx, (TickStart * Len(terrainSequence)) \div run.duration)

\* C16 (amended): the terrain advances at the first iteration that starts at
\* least D/N (as an integer division) after the previous change, and the next
\* interval is counted from that iteration's start; so entry k is never active
\* before k * (D/N), and an iteration starting at t runs on entry
\* min(N-1, floor(t / (D/N))) when the time per iteration divides D/N.
C16_ScheduleByElapsed ==
    Ticked =>
        LET td == terrainDuration(run.duration)
            idx == loop.currentTerrainIdx
        IN  /\ tick.pre.Terrain = terrainSequence[idx + 1]
            /\ idx * td <= loop.lastTerrainChange
            /\ loop.lastTerrainChange <= TickStart
            /\ tick.changed => loop.lastTerrainChange = TickStart
            /\ (~tick.changed /\ idx < LastIdx) => TickStart - loop.lastTerrainChange < td
            /\ td % run.tickDur = 0 => idx = Min(LastIdx, TickStart \div td)

\* C16 witness: with iterations of 300 ms and D/N = 2 s the terrain changed in
\* an iteration that started later than a multiple of 2 s.
C16_Witness ==
    /\ explored > 0
    /\ tick.changed
    /\ terrainDuration(run.duration) % run.tickDur # 0
    /\ TickStart > loop.currentTerrainIdx * terrainDuration(run.duration)
    /\ loop.lastTerrainChange = TickStart

\* With iterations that divide D/N the terrain changed exactly at a multiple of it.
C16_OnTime ==
    /\ explored > 0
    /\ tick.changed
    /\ run.duration = 14000
    /\ TickStart = loop.currentTerrainIdx * terrainDuration(run.duration)

\* C20 (as claimed): a link whose TargetOffset + LinkSize exceeds the input
\* width the navigator declares is refused at setup: no iteration is executed
\* and no result is returned.
C20_WideLinkRefused ==
    (run.linkConfig.TargetOffset + run.linkConfig.LinkSize > NavigatorInputSize) =>
        /\ result.TotalSteps = 0
        /\ pc # "done"

\* The subsequence of links that satisfy a test, in order.
Only(links, Test(_)) == SelectSeq(links, Test)

ValidStrings(c) ==
    /\ c.Name # BadUtf8
    /\ \A n \in DOMAIN c.Models : n # BadUtf8
    /\ \A i \in 1..Len(c.Links.data) :
         /\ c.Links.data[i].Name # BadUtf8
         /\ c.Links.data[i].SourceModel # BadUtf8
         /\ c.Links.data[i].TargetModel # BadUtf8
         /\ c.Links.data[i].Description # BadUtf8

\* The loaded config has the name, the models and the links of the one saved.
SameConfig(a, b) ==
    /\ a.Name = b.Name
    /\ DOMAIN a.Models = DOMAIN b.Models
    /\ \A n \in DOMAIN a.Models : a.Models[n].value = b.Models[n].value
    /\ Len(a.Links.data) = Len(b.Links.data)
    /\ a.Links.data = b.Links.data

\* C18 (as claimed): a config built by NewConfig, AddModel and AddLink, saved
\* and loaded, comes back with the same name, the same models and the same
\* links in the same order.
C18_RoundTrip ==
    (pc = "loaded" /\ conf.loaded.ok) => SameConfig(conf.loaded.c, conf.c)

\* C18 (amended): it comes back so when its strings are valid UTF-8 (an invalid
\* byte comes back as U+FFFD); the model definitions come back re-indented,
\* equal as JSON values, and a config without links comes back with nil Links.
C18_RoundTripValid ==
    (pc = "loaded" /\ conf.loaded.ok) =>
        /\ ValidStrings(conf.c) => SameConfig(conf.loaded.c, conf.c)
        /\ conf.loaded.c.Name = ToValidUTF8(conf.c.Name)
        /\ Len(conf.loaded.c.Links.data) = Len(conf.c.Links.data)
        /\ conf.loaded.c.Links.isNil = (Len(conf.c.Links.data) = 0)
        /\ \A n \in DOMAIN conf.loaded.c.Models : conf.loaded.c.Models[n].layout = "indented"

\* C18 witness: a config with two models and two links of valid strings was
\* saved to the file and loaded back equal.
C18_Witness ==
    /\ pc = "loaded"
    /\ conf.loaded.ok
    /\ conf.saved.kind = "file"
    /\ ValidStrings(conf.c)
    /\ DOMAIN conf.c.Models = ModelNames
    /\ Len(conf.c.Links.data) = 2
    /\ conf.loaded.c.Links.data = conf.c.Links.data

\* A config without links came back, through a string, with no links.
C18_NoLinks ==
    /\ pc = "loaded"
    /\ conf.loaded.ok
    /\ conf.saved.kind = "string"
    /\ Len(conf.c.Links.data) = 0
    /\ ~conf.saved.doc.links.present
    /\ conf.loaded.c.Links = NilSlice

\* No two links of the sequence have the same Name.
UniqueNames(links) ==
    \A i, j \in 1..Len(links) : links[i].Name = links[j].Name => i = j

\* C19 (as claimed): after any AddLink calls, and after loading, no two links
\* of a config have the same Name.
C19_LinkNamesUnique ==
    /\ UniqueNames(conf.c.Links.data)
    /\ conf.loaded.ok => UniqueNames(conf.loaded.c.Links.data)

\* A loaded config has two links of one name.
C19_LoadedTwice ==
    /\ pc = "loaded"
    /\ conf.loaded.ok
    /\ ~UniqueNames(conf.loaded.c.Links.data)

\* The sum of the first n entries of a sequence of numbers.
RECURSIVE SumTo(_, _)
SumTo(f, n) == IF n = 0 THEN 0 ELSE f[n] + SumTo(f, n - 1)

\* The effective moves, and the steps, of all sealed windows together.
WindowsEffective == SumTo([i \in 1..Len(result.Windows) |-> result.Windows[i].EffectiveMoves],
                          Len(result.Windows))
WindowsSteps == SumTo([i \in 1..Len(result.Windows) |-> result.Windows[i].TotalSteps],
                      Len(result.Windows))

\* C21: every sealed window holds at least one step and its Accuracy is
\* 100 * EffectiveMoves / TotalSteps; the FinalAccuracy of a returned result
\* is 100 * (sum of the windows' EffectiveMoves) / (sum of their TotalSteps),
\* and 0 when no window was sealed; it is 0 until the run returns.
C21_AccuracyOverWindows ==
    /\ \A i \in 1..Len(result.Windows) :
           LET w == result.Windows[i]
           IN  /\ w.TotalSteps > 0
               /\ w.Accuracy = RoundDiv(100 * Unit * w.EffectiveMoves, w.TotalSteps)
    /\ pc = "done" =>
           result.FinalAccuracy = IF Len(result.Windows) = 0 THEN 0
                                  ELSE RoundDiv(100 * Unit * WindowsEffective, WindowsSteps)
    /\ pc # "done" => result.FinalAccuracy = 0

\* A returned result of two windows of different accuracy, with a final
\* accuracy strictly between 0 and 100.
C21_Witness ==
    /\ pc = "done"
    /\ Len(result.Windows) = 2
    /\ result.Windows[1].Accuracy < result.Windows[2].Accuracy
    /\ result.FinalAccuracy > result.Windows[1].Accuracy
    /\ result.FinalAccuracy < result.Windows[2].Accuracy

\* The last iteration sealed a window, and all iterations of that window are
\* remembered.
JustSealed ==
    /\ Len(trail) > 0
    /\ Len(result.Windows) > 0
    /\ loop.lastWindow = loop.now
    /\ result.Windows[Len(result.Windows)].TotalSteps <= Len(trail)

\* The remembered iterations of the window sealed last.
SealedTicks ==
    LET n == result.Windows[Len(result.Windows)].TotalSteps
    IN  SubSeq(trail, Len(trail) - n + 1, Len(trail))

\* The number of the iterations among ticks that ran on the terrain.
TicksOn(ticks, terrain) ==
    Cardinality({i \in 1..Len(ticks) : ticks[i].pre.Terrain = terrain})

\* The terrain with this name.
TerrainNamed(name) == CHOOSE u \in 0..3 : terrainNames[u + 1] = name

\* C22 (as claimed): the terrain label of a sealed window is the terrain that
\* was active on the largest number of the window's iterations.
C22_DominantTerrain ==
    JustSealed =>
        \A u \in 0..3 :
            TicksOn(SealedTicks, TerrainNamed(result.Windows[Len(result.Windows)].Terrain))
                >= TicksOn(SealedTicks, u)

\* C22 (corrected): the terrain label of a sealed window is the terrain that
\* is active on the iteration that seals it, the window's last, whatever
\* terrain the earlier iterations of the window ran on.
C22_TerrainAtSeal ==
    JustSealed =>
        /\ result.Windows[Len(result.Windows)].Terrain
               = terrainNames[trail[Len(trail)].pre.Terrain + 1]
        /\ result.Windows[Len(result.Windows)].Terrain = terrainNames[env.Terrain + 1]

\* A window of three iterations, two on road and the last on sand, is sealed
\* with the label Sand.
C22_Witness ==
    /\ JustSealed
    /\ result.Windows[Len(result.Windows)].TotalSteps = 3
    /\ TicksOn(SealedTicks, TerrainRoad) = 2
    /\ trail[Len(trail)].pre.Terrain = TerrainSand
    /\ result.Windows[Len(result.Windows)].Terrain = "Sand"

\* C23: the local update is called only on the navigator the run was given
\* and only when the run has adaptation (useRL) on: without it no network is
\* updated, however many forward passes ran; with it the navigator is the one
\* network updated, once per iteration. The shared classifier and the
\* navigators of the other modes are never updated.
C23_OnlyOwnNavigator ==
    /\ nets.tweened \subseteq {Navigator(run)}
    /\ \A n \in nets.tweened : n.net # "classifier"
    /\ ~run.useRL => nets.tweened = {} /\ nets.tweenSteps = 0
    /\ run.useRL /\ Ticked => nets.tweened = {Navigator(run)}

\* The full system (link and adaptation) ran two iterations: the classifier
\* ran forward twice, and navigator 3 is the only network updated.
C23_Witness ==
    /\ run.useRL
    /\ run.useLink
    /\ nets.classifierForwards = 2
    /\ nets.tweenSteps = 2
    /\ nets.tweened = {[net |-> "navigator", instance |-> 3]}

\* C24: the action selected from an output of 4 entries is a valid action
\* index, 0..3; its entry is the largest of the output, and no entry before
\* it is as large: among equal largest entries the smallest index is taken.
C24_LargestFirst ==
    pc = "selected" =>
        /\ tick.action \in 0..(NumActions - 1)
        /\ \A j \in 1..NumActions : tick.output[j] <= tick.output[tick.action + 1]
        /\ \A j \in 1..tick.action : tick.output[j] < tick.output[tick.action + 1]

\* The entries of Down and Right tie above the other two: Down is selected.
C24_Witness ==
    /\ pc = "selected"
    /\ tick.output[ActionDown + 1] = tick.output[ActionRight + 1]
    /\ tick.output[ActionUp + 1] < tick.output[ActionDown + 1]
    /\ tick.output[ActionLeft + 1] < tick.output[ActionDown + 1]
    /\ tick.action = ActionDown

\* The last iteration ran on road.
OnRoad == Len(trail) > 0 /\ trail[Len(trail)].pre.Terrain = TerrainRoad

\* C25 (as claimed): on road the action moves the agent by the full step
\* (then clamped) whatever the earlier actions, and the move changes no field
\* but the agent position: last action, stuck count, velocity, target position
\* and terrain are as before.
C25_RoadOnlyPosition ==
    OnRoad =>
        LET last == trail[Len(trail)]
        IN  last.moved = [last.pre EXCEPT !.AgentPos = Stepped(last.pre, last.action, Unit)]

\* C25 (corrected): on road the action moves the agent by the full step (then
\* clamped) whatever the earlier actions, and the move records the action as
\* the last action; stuck count, velocity, target position and terrain are
\* as before.
C25_RoadStep ==
    OnRoad =>
        LET last == trail[Len(trail)]
        IN  last.moved = [last.pre EXCEPT !.AgentPos = Stepped(last.pre, last.action, Unit),
                                          !.LastAction = last.action]

\* An iteration on road with a stuck count left from sand and an action other
\* than the last: the agent moved by the full step, the stuck count stayed,
\* the last action is the new one.
C25_Witness ==
    /\ OnRoad
    /\ LET last == trail[Len(trail)]
       IN  /\ last.pre.StuckCount > 0
           /\ last.pre.LastAction # last.action
           /\ last.moved.LastAction = last.action
           /\ last.moved.StuckCount = last.pre.StuckCount
           /\ Abs(last.moved.AgentPos[1] - last.pre.AgentPos[1])
                + Abs(last.moved.AgentPos[2] - last.pre.AgentPos[2]) = Speed

\* The step is a call of GetModel: no other step changes what a lookup gave.
GetModelStep == conf'.got # conf.got

C26_Found ==
    /\ pc = "build"
    /\ DOMAIN conf.c.Models = {"navigator"}
    /\ conf.c.Models["navigator"].value = "classifierDef"
    /\ conf.got.asked
    /\ conf.got.name = "navigator"
    /\ conf.got.err = "nil"
    /\ conf.got.target = "classifierDef"

\* C27: an iteration starts only while the elapsed time is below the
\* duration; the loop is left only when the elapsed time has reached the
\* duration, with the result returned as the loop left it but for the final
\* accuracy; and, every iteration taking positive time, every run is
\* eventually left and returns.
C27_RunEnds ==
    /\ [](run.tickDur > 0)
    /\ [][result'.TotalSteps # result.TotalSteps =>
            /\ pc = "loop"
            /\ loop.now < run.duration
            /\ loop'.now > loop.now]_vars
    /\ [][pc' # pc =>
            /\ pc = "loop"
            /\ pc' = "done"
            /\ loop.now >= run.duration
            /\ loop' = loop
            /\ result' = [result EXCEPT !.FinalAccuracy = result'.FinalAccuracy]]_vars
    /\ <>(pc = "done")

\* A run has returned after as many iterations as fit in its duration, with a
\* sealed window.
C27_Witness ==
    /\ pc = "done"
    /\ loop.now >= run.duration
    /\ loop.now - run.tickDur < run.duration
    /\ result.TotalSteps * run.tickDur = loop.now
    /\ Len(result.Windows) > 0

\* C28: whenever an iteration can start, the agent is at distance 0.1 or more
\* from the target; an iteration that reached the target has put the target
\* 0.4 or more beyond the agent on both axes, and the target is not reached
\* on two iterations in a row.
C28_NeverAtTarget ==
    /\ pc = "loop" => distanceToTarget(env) >= ReachDist
    /\ (explored > 0 /\ tick.reached) =>
           /\ env.TargetPos[1] - env.AgentPos[1] >= 4000
           /\ env.TargetPos[2] - env.AgentPos[2] >= 4000
    /\ Len(trail) >= 2 => ~(trail[Len(trail) - 1].reached /\ trail[Len(trail)].reached)

\* The target was reached and the reset drew the closest places there are:
\* agent and target are 0.4 apart on both axes.
C28_Witness ==
    /\ explored > 0
    /\ tick.reached
    /\ tick.newDist < ReachDist
    /\ env.TargetPos[1] - env.AgentPos[1] = 4000
    /\ env.TargetPos[2] - env.AgentPos[2] = 4000

\* The targets of all sealed windows together.
WindowsTargets == SumTo([i \in 1..Len(result.Windows) |-> result.Windows[i].TargetsReached],
                        Len(result.Windows))

\* The targets counted for the four terrains together.
TerrainTargets ==
    result.TerrainResults["Road"] + result.TerrainResults["Sand"]
        + result.TerrainResults["Ice"] + result.TerrainResults["Grass"]

\* C29: after every iteration, and in the returned result, TotalTargets is the
\* sum of the per-terrain counts and is the targets of the sealed windows plus
\* those of the open window, and TotalSteps is the steps of the sealed windows
\* plus those of the open window; the returned totals so include the open
\* window that is never sealed, while the final accuracy is over the sealed
\* windows alone.
C29_TotalsAccounted ==
    /\ DOMAIN result.TerrainResults = {"Road", "Sand", "Ice", "Grass"}
    /\ result.TotalTargets = TerrainTargets
    /\ result.TotalTargets = WindowsTargets + loop.windowTargets
    /\ result.TotalSteps = WindowsSteps + loop.windowSteps
    /\ (pc = "done" /\ Len(result.Windows) > 0) =>
           result.FinalAccuracy = RoundDiv(100 * Unit * WindowsEffective,
                                           result.TotalSteps - loop.windowSteps)

\* A run returned with one target, reached on road on the one iteration after
\* the last seal: the total counts it, no sealed window does.
C29_Witness ==
    /\ pc = "done"
    /\ result.TotalTargets = 1
    /\ result.TerrainResults["Road"] = 1
    /\ WindowsTargets = 0
    /\ loop.windowTargets = 1
    /\ loop.windowSteps = 1
    /\ result.TotalSteps = WindowsSteps + 1

\* A target was reached in a window that was then sealed, and an iteration
\* ran after the seal.
C29_SealedTarget ==
    /\ result.TotalTargets = 1
    /\ WindowsTargets = 1
    /\ loop.windowSteps = 1

\* The two velocity components of an environment.
Vel(e) == <<e.IceVelX, e.IceVelY>>

\* C30: each component of the ice velocity has magnitude 0.02 at most. Within
\* an iteration the velocity is changed only by the terrain update when the
\* terrain changes (to zero), by the move when the terrain is ice, and by the
\* reset when the target is reached (to zero). The move on ice sets each
\* component to v*(1-friction) + requested*friction whether or not the
\* position was clamped at a wall.
C30_IceVelocity ==
    /\ Abs(env.IceVelX) <= Speed
    /\ Abs(env.IceVelY) <= Speed
    /\ explored > 0 =>
           /\ Vel(tick.pre) # Vel(tick.start) => tick.changed /\ Vel(tick.pre) = <<0, 0>>
           /\ Vel(tick.moved) # Vel(tick.pre) => tick.pre.Terrain = TerrainIce
           /\ Vel(env) # Vel(tick.moved) => tick.reached /\ Vel(env) = <<0, 0>>
           /\ tick.pre.Terrain = TerrainIce =>
                  Vel(tick.moved)
                      = <<Mul(tick.pre.IceVelX, Unit - Friction)
                            + Mul(MoveOf(tick.action)[1], Friction),
                          Mul(tick.pre.IceVelY, Unit - Friction)
                            + Mul(MoveOf(tick.action)[2], Friction)>>
           /\ Abs(tick.moved.IceVelX) <= Speed
           /\ Abs(tick.moved.IceVelY) <= Speed

\* On ice the agent is held at the left wall by the clamp while its velocity
\* into the wall grows.
C30_Witness ==
    /\ explored > 0
    /\ tick.pre.Terrain = TerrainIce
    /\ tick.pre.IceVelX < 0
    /\ tick.moved.IceVelX < tick.pre.IceVelX
    /\ tick.pre.AgentPos[1] + tick.moved.IceVelX < 0
    /\ tick.moved.AgentPos[1] = 0
    /\ env.IceVelX = tick.moved.IceVelX

\* C31 (as claimed): AddModel never crashes on a config obtained from
\* NewConfig, FromJSON or LoadFromFile, whatever the document loaded: the
\* models map of every such config takes an insertion.
C31_AddModelNeverPanics == pc # "panic"

====
